---- MODULE Spec2Model ----
(***************************************************************************)
(* Model of app.py, a Streamlit page that fetches a price series and a     *)
(* company snapshot from Yahoo Finance and renders them.  Streamlit        *)
(* re-executes the whole script on every interaction; every action below   *)
(* is one such execution (or the passage of time between two of them).     *)
(*                                                                         *)
(* Text that the code formats is modelled as a sequence of one-character   *)
(* strings.  A Python int is [t |-> "int", v |-> n]; a Python float is     *)
(* [t |-> "float", v |-> m] and stands for the number m / Scale.           *)
(***************************************************************************)
EXTENDS Integers, Sequences, FiniteSets, TLC

\* ------------------------------------------------------------------ values

\* Python's None.
None == [t |-> "none"]

\* A local name the script has not (yet) bound in this execution.
Undefined == [t |-> "undefined"]

\* Fixed-point denominator of the modelled floats: four decimals, two more
\* than the formats keep.
Scale == 100 * 100

PyInt(n) == [t |-> "int", v |-> n]
PyFloat(m) == [t |-> "float", v |-> m]
PyStr(s) == [t |-> "str", v |-> s]
PyDate(d) == [t |-> "date", v |-> d]

\* isinstance(value, (int, float))
IsNumber(x) == x.t \in {"int", "float"}

Abs(n) == IF n < 0 THEN -n ELSE n

\* F(v), with v evaluated once: a local name bound to a value.
Bind(v, F(_)) == CHOOSE y \in {F(r) : r \in {v}} : TRUE

\* ------------------------------------------------------------------ text

DigitChars == <<"0", "1", "2", "3", "4", "5", "6", "7", "8", "9">>

\* The decimal digits of a natural number, most significant first.
RECURSIVE NatStr(_)
NatStr(n) ==
    IF n < 10 THEN <<DigitChars[n + 1]>>
    ELSE NatStr(n \div 10) \o <<DigitChars[(n % 10) + 1]>>

\* A natural number below 100 as exactly two digits.
TwoDigits(n) == <<DigitChars[(n \div 10) + 1], DigitChars[(n % 10) + 1]>>

\* Digits with a "," before every group of three, counted from the right.
RECURSIVE GroupThousands(_)
GroupThousands(ds) ==
    IF Len(ds) <= 3 THEN ds
    ELSE GroupThousands(SubSeq(ds, 1, Len(ds) - 3))
             \o <<",">> \o SubSeq(ds, Len(ds) - 2, Len(ds))

\* q / d rounded to the nearest integer, ties to even (q >= 0, d > 0): the
\* rounding of Python's float formatting when the tie is exact in binary.
RoundHalfEven(q, d) ==
    LET f == q \div d
        r == q % d
    IN  IF 2 * r < d THEN f
        ELSE IF 2 * r > d THEN f + 1
        ELSE IF f % 2 = 0 THEN f ELSE f + 1

\* The fraction digits of repr(float): the four fixed-point digits without
\* trailing zeros, at least one digit kept.
RECURSIVE TrimZeros(_)
TrimZeros(ds) ==
    IF Len(ds) > 1 /\ ds[Len(ds)] = "0"
    THEN TrimZeros(SubSeq(ds, 1, Len(ds) - 1))
    ELSE ds

FourDigits(n) == TwoDigits(n \div 100) \o TwoDigits(n % 100)

Sign(n) == IF n < 0 THEN <<"-">> ELSE <<>>

\* The outcome of evaluating a format expression: the text, or the exception.
Ok(s) == [exc |-> "none", s |-> s]
Raise(e) == [exc |-> e, s |-> <<>>]

\* format(x, ".2f")
Format2f(x) ==
    CASE x.t = "int" -> Ok(Sign(x.v) \o NatStr(Abs(x.v)) \o <<".">> \o TwoDigits(0))
      [] x.t = "float" ->
            LET h == RoundHalfEven(Abs(x.v), Scale \div 100)
            IN  Ok(Sign(x.v) \o NatStr(h \div 100) \o <<".">> \o TwoDigits(h % 100))
      [] x.t = "none" -> Raise("TypeError")
      [] OTHER -> Raise("ValueError")

\* A bug: the yield is formatted with ".2f" instead of ".2%".
FormatPct2_As2f(x) == Format2f(x)

\* format(x, ".2%"): the number times 100, two fraction digits, then "%".
FormatPct2(x) ==
    CASE x.t = "int" ->
            Ok(Sign(x.v) \o NatStr(Abs(x.v) * 100) \o <<".">> \o TwoDigits(0) \o <<"%">>)
      [] x.t = "float" ->
            LET h == RoundHalfEven(Abs(x.v) * 100, Scale \div 100)
            IN  Ok(Sign(x.v) \o NatStr(h \div 100) \o <<".">> \o TwoDigits(h % 100)
                       \o <<"%">>)
      [] x.t = "none" -> Raise("TypeError")
      [] OTHER -> Raise("ValueError")

\* format(x, ",")
FormatComma(x) ==
    CASE x.t = "int" -> Ok(Sign(x.v) \o GroupThousands(NatStr(Abs(x.v))))
      [] x.t = "float" ->
            Ok(Sign(x.v) \o GroupThousands(NatStr(Abs(x.v) \div Scale)) \o <<".">>
                   \o TrimZeros(FourDigits(Abs(x.v) % Scale)))
      [] x.t = "none" -> Raise("TypeError")
      [] OTHER -> Raise("ValueError")

\* ------------------------------------------------------------------ str methods

UpperLetters ==
    <<"A", "B", "C", "D", "E", "F", "G", "H", "I", "J", "K", "L", "M",
      "N", "O", "P", "Q", "R", "S", "T", "U", "V", "W", "X", "Y", "Z">>

LowerLetters ==
    <<"a", "b", "c", "d", "e", "f", "g", "h", "i", "j", "k", "l", "m",
      "n", "o", "p", "q", "r", "s", "t", "u", "v", "w", "x", "y", "z">>

UpperChar(c) ==
    IF \E i \in 1..26 : LowerLetters[i] = c
    THEN UpperLetters[CHOOSE i \in 1..26 : LowerLetters[i] = c]
    ELSE c

LowerChar(c) ==
    IF \E i \in 1..26 : UpperLetters[i] = c
    THEN LowerLetters[CHOOSE i \in 1..26 : UpperLetters[i] = c]
    ELSE c

\* str.upper()
Upper(s) == [i \in 1..Len(s) |-> UpperChar(s[i])]

\* str.lower()
Lower(s) == [i \in 1..Len(s) |-> LowerChar(s[i])]

\* sub in s
Contains(s, sub) ==
    \E i \in 1..(Len(s) - Len(sub) + 1) : SubSeq(s, i, i + Len(sub) - 1) = sub

\* ------------------------------------------------------------------ dict

\* A Python dict with string keys: a function whose domain is the keys present.
Dict(d) == [t |-> "dict", d |-> d]

\* key in info
HasKey(info, key) == key \in DOMAIN info.d

\* info.get(key, default)
Get(info, key, default) == IF HasKey(info, key) THEN info.d[key] ELSE default

\* ------------------------------------------------------------------ metrics table

metric_keys ==
    <<"previousClose", "open", "dayLow",
      "dayHigh", "volume", "averageVolume",
      "fiftyDayAverage", "twoHundredDayAverage", "marketCap",
      "beta", "trailingPE", "forwardPE",
      "dividendYield", "trailingAnnualDividendYield", "earningsQuarterlyGrowth",
      "priceToSalesTrailing12Months">>

name_mapping ==
    ("previousClose" :> "Previous Close")
    @@ ("open" :> "Open")
    @@ ("dayLow" :> "Day Low")
    @@ ("dayHigh" :> "Day High")
    @@ ("volume" :> "Volume")
    @@ ("averageVolume" :> "Average Volume")
    @@ ("fiftyDayAverage" :> "50-Day Average")
    @@ ("twoHundredDayAverage" :> "200-Day Average")
    @@ ("marketCap" :> "Market Cap")
    @@ ("beta" :> "Beta")
    @@ ("trailingPE" :> "Trailing P/E")
    @@ ("forwardPE" :> "Forward P/E")
    @@ ("dividendYield" :> "Dividend Yield")
    @@ ("trailingAnnualDividendYield" :> "Trailing Annual Dividend Yield")
    @@ ("earningsQuarterlyGrowth" :> "Earnings Quarterly Growth")
    @@ ("priceToSalesTrailing12Months" :> "Price to Sales (TTM)")

KeyChars(key) ==
    CASE key = "previousClose" ->
            <<"p", "r", "e", "v", "i", "o", "u", "s", "C", "l", "o", "s", "e">>
      [] key = "open" ->
            <<"o", "p", "e", "n">>
      [] key = "dayLow" ->
            <<"d", "a", "y", "L", "o", "w">>
      [] key = "dayHigh" ->
            <<"d", "a", "y", "H", "i", "g", "h">>
      [] key = "volume" ->
            <<"v", "o", "l", "u", "m", "e">>
      [] key = "averageVolume" ->
            <<"a", "v", "e", "r", "a", "g", "e", "V", "o", "l", "u", "m", "e">>
      [] key = "fiftyDayAverage" ->
            <<"f", "i", "f", "t", "y", "D", "a", "y", "A", "v", "e", "r", "a", "g", "e">>
      [] key = "twoHundredDayAverage" ->
            <<"t", "w", "o", "H", "u", "n", "d", "r", "e", "d", "D", "a", "y", "A", "v", "e", "r", "a", "g", "e">>
      [] key = "marketCap" ->
            <<"m", "a", "r", "k", "e", "t", "C", "a", "p">>
      [] key = "beta" ->
            <<"b", "e", "t", "a">>
      [] key = "trailingPE" ->
            <<"t", "r", "a", "i", "l", "i", "n", "g", "P", "E">>
      [] key = "forwardPE" ->
            <<"f", "o", "r", "w", "a", "r", "d", "P", "E">>
      [] key = "dividendYield" ->
            <<"d", "i", "v", "i", "d", "e", "n", "d", "Y", "i", "e", "l", "d">>
      [] key = "trailingAnnualDividendYield" ->
            <<"t", "r", "a", "i", "l", "i", "n", "g", "A", "n", "n", "u", "a", "l", "D", "i", "v", "i", "d", "e", "n", "d", "Y", "i", "e", "l", "d">>
      [] key = "earningsQuarterlyGrowth" ->
            <<"e", "a", "r", "n", "i", "n", "g", "s", "Q", "u", "a", "r", "t", "e", "r", "l", "y", "G", "r", "o", "w", "t", "h">>
      [] key = "priceToSalesTrailing12Months" ->
            <<"p", "r", "i", "c", "e", "T", "o", "S", "a", "l", "e", "s", "T", "r", "a", "i", "l", "i", "n", "g", "1", "2", "M", "o", "n", "t", "h", "s">>

\* name_mapping.get(x, x)
Label(key) == IF key \in DOMAIN name_mapping THEN name_mapping[key] ELSE key

Range(seq) == {seq[i] : i \in DOMAIN seq}

\* 'volume' in key.lower(), for every key of metric_keys.
VolumeInKey ==
    [key \in Range(metric_keys) |->
        Contains(Lower(KeyChars(key)), <<"v", "o", "l", "u", "m", "e">>)]

\* 'yield' in key.lower(), for every key of metric_keys.
YieldInKey ==
    [key \in Range(metric_keys) |->
        Contains(Lower(KeyChars(key)), <<"y", "i", "e", "l", "d">>)]

\* The body of the loop over metric_keys for a key the snapshot holds: the
\* value stored in key_metrics, or the exception the format expression raises.
FormatMetric(key, value) ==
    IF VolumeInKey[key] \/ key = "marketCap"
    THEN LET f == FormatComma(value)
         IN  [exc |-> f.exc, v |-> PyStr(f.s)]
    ELSE IF YieldInKey[key] /\ value # None
    THEN LET f == FormatPct2(value)
         IN  [exc |-> f.exc, v |-> PyStr(f.s)]
    ELSE IF IsNumber(value)
    THEN LET f == Format2f(value)
         IN  [exc |-> f.exc, v |-> PyStr(f.s)]
    ELSE [exc |-> "none", v |-> value]

\* The loop over metric_keys from position i on, rows being key_metrics so
\* far (insertion order).  An exception leaves the loop at once.
RECURSIVE BuildKeyMetrics(_, _, _)
BuildKeyMetrics(info, i, rows) ==
    IF i > Len(metric_keys) THEN [exc |-> "none", rows |-> rows]
    ELSE LET key == metric_keys[i]
         IN  IF ~HasKey(info, key) THEN BuildKeyMetrics(info, i + 1, rows)
             ELSE LET f == FormatMetric(key, info.d[key])
                  IN  IF f.exc # "none" THEN [exc |-> f.exc, rows |-> rows]
                      ELSE BuildKeyMetrics(info, i + 1,
                               Append(rows, [key |-> key, Value |-> f.v]))

\* metrics_df: one row per entry of key_metrics, the key renamed to its label.
MetricsDf(rows) ==
    [i \in 1..Len(rows) |-> [Metric |-> Label(rows[i].key), Value |-> rows[i].Value]]

\* ------------------------------------------------------------------ headline metrics

\* info.get('marketCap', 0) / 1_000_000_000 formatted with ".2f".  Every
\* float of the model is below 2^31 / Scale, so its quotient rounds to 0.00.
FormatBillions2f(x) ==
    CASE x.t = "int" ->
            LET h == RoundHalfEven(Abs(x.v), 10000000)
            IN  Ok(Sign(x.v) \o NatStr(h \div 100) \o <<".">> \o TwoDigits(h % 100))
      [] x.t = "float" -> Ok(Sign(x.v) \o <<"0", ".", "0", "0">>)
      [] OTHER -> Raise("TypeError")

NA == PyStr(<<"N", "/", "A">>)

\* The four st.metric calls of the try block, in order: the text of each
\* metric, or the exception raised while building it.
HeadlineMetric(info, n) ==
    CASE n = 1 ->
            LET f == Format2f(Get(info, "currentPrice", NA))
            IN  [exc |-> f.exc, label |-> "Current Price", s |-> <<"$">> \o f.s]
      [] n = 2 ->
            LET f == FormatBillions2f(Get(info, "marketCap", PyInt(0)))
            IN  [exc |-> f.exc, label |-> "Market Cap", s |-> <<"$">> \o f.s \o <<"B">>]
      [] n = 3 ->
            LET f == Format2f(Get(info, "trailingPE", NA))
            IN  [exc |-> f.exc, label |-> "P/E Ratio", s |-> f.s]
      [] n = 4 ->
            LET lo == Format2f(Get(info, "fiftyTwoWeekLow", NA))
                hi == Format2f(Get(info, "fiftyTwoWeekHigh", NA))
            IN  [exc |-> IF lo.exc # "none" THEN lo.exc ELSE hi.exc,
                 label |-> "52W Range",
                 s |-> <<"$">> \o lo.s \o <<" ", "-", " ", "$">> \o hi.s]

\* The exceptions the try block of the headline metrics handles.
HeadlineCaught == {"TypeError", "KeyError"}

\* One element of the page: the Streamlit call and what it shows.
El(kind, arg) == [kind |-> kind, arg |-> arg]

\* The try/except around the headline metrics from metric n on: the elements
\* shown, and the exception that leaves the block uncaught ("none" if none).
RECURSIVE Headline(_, _, _)
Headline(info, n, shown) ==
    IF n > 4 THEN [exc |-> "none", out |-> shown]
    ELSE LET m == HeadlineMetric(info, n)
         IN  IF m.exc = "none"
             THEN Headline(info, n + 1,
                      Append(shown, El("metric", [label |-> m.label, value |-> m.s])))
             ELSE IF m.exc \in HeadlineCaught
             THEN [exc |-> "none",
                   out |-> Append(shown, El("warning", "metrics_not_available"))]
             ELSE [exc |-> m.exc, out |-> shown]

\* ------------------------------------------------------------------ provider

\* What a provider call can come back with besides a value: an exception.
Raised == [t |-> "exception"]

\* A pandas DataFrame of bars, one row per bar, indexed by Date.
Frame(rows) == [t |-> "frame", rows |-> rows]

\* data.empty
IsEmpty(data) == Len(data.rows) = 0

Bar(d, o, h, l, c, v) ==
    [Date |-> d, Open |-> o, High |-> h, Low |-> l, Close |-> c, Volume |-> v]

\* The frames yf.download answers with in the model: no rows, or some bars.
Frames ==
    { Frame(<<>>),
      Frame(<<Bar(1, 1500000, 1520000, 1490000, 1510000, 900),
              Bar(2, 1510000, 1550000, 1500000, 1540000, 1200)>>) }

DownloadAnswers == {Raised} \cup Frames

\* ------------------------------------------------------------------ fetchers

\* The time-to-live of both st.cache_data decorators, in seconds.
ttl == 3600

\* Python truthiness of the period argument: neither None nor "".
Truthy(period) == period # None /\ period # PyStr("")

\* A bug: the test of period is inverted, a preset is requested by dates.
get_stock_data_ByDates(ticker, start, end, period, interval, answer) ==
    LET call == IF ~(Truthy(period) /\ period # PyStr("custom"))
                THEN [fn |-> "yf.download", ticker |-> ticker, start |-> None,
                      end |-> None, period |-> period, interval |-> interval]
                ELSE [fn |-> "yf.download", ticker |-> ticker, start |-> start,
                      end |-> end, period |-> None, interval |-> interval]
    IN  IF answer = Raised
        THEN [value |-> None, call |-> call,
              messages |-> <<El("error", [msg |-> "Error fetching data"])>>]
        ELSE IF IsEmpty(answer)
        THEN [value |-> None, call |-> call, messages |-> <<>>]
        ELSE [value |-> answer, call |-> call, messages |-> <<>>]

\* The body of get_stock_data when it runs (a cache miss): the yf.download
\* call it makes, its return value for the provider's answer, and the
\* elements it shows.
get_stock_data(ticker, start, end, period, interval, answer) ==
    LET call == IF Truthy(period) /\ period # PyStr("custom")
                THEN [fn |-> "yf.download", ticker |-> ticker, start |-> None,
                      end |-> None, period |-> period, interval |-> interval]
                ELSE [fn |-> "yf.download", ticker |-> ticker, start |-> start,
                      end |-> end, period |-> None, interval |-> interval]
    IN  IF answer = Raised
        THEN [value |-> None, call |-> call,
              messages |-> <<El("error", [msg |-> "Error fetching data"])>>]
        ELSE IF IsEmpty(answer)
        THEN [value |-> None, call |-> call, messages |-> <<>>]
        ELSE [value |-> answer, call |-> call, messages |-> <<>>]

\* The body of get_stock_info when it runs (a cache miss).
get_stock_info(ticker, answer) ==
    LET call == [fn |-> "yf.Ticker.info", ticker |-> ticker]
    IN  IF answer = Raised
        THEN [value |-> None, call |-> call,
              messages |-> <<El("error", [msg |-> "Error fetching stock info"])>>]
        ELSE [value |-> answer, call |-> call, messages |-> <<>>]

\* A bug: entries never expire.
CacheFresh_NoExpiry(entry, now) == TRUE

\* A bug: a None result is not served from the cache.
CacheFresh_ValuesOnly(entry, now) ==
    entry.value # None /\ now < entry.created + ttl

\* st.cache_data(ttl=3600): an entry answers until ttl seconds after it was
\* created.
CacheFresh(entry, now) == now < entry.created + ttl

\* What a lookup met in the cache: an entry of some age in seconds (fresh or
\* not), or no entry.
Found(key, age) == [key |-> key, found |-> TRUE, age |-> age]
NotCached(key) == [key |-> key, found |-> FALSE, age |-> 0]

\* A call of a cached function: key is its arguments, computed what its body
\* does if it runs.  A fresh entry answers without running the body and shows
\* again the elements the body showed; otherwise the body runs and its
\* result, None included, replaces the entry.
CachedCall(cache, key, now, computed) ==
    IF key \in DOMAIN cache /\ CacheFresh(cache[key], now)
    THEN [value |-> cache[key].value, messages |-> cache[key].messages,
          calls |-> <<>>, lookup |-> Found(key, now - cache[key].created),
          cache |-> cache]
    ELSE [value |-> computed.value, messages |-> computed.messages,
          calls |-> <<computed.call>>,
          lookup |-> IF key \in DOMAIN cache
                     THEN Found(key, now - cache[key].created)
                     ELSE NotCached(key),
          cache |-> [k \in DOMAIN cache \cup {key} |->
                       IF k = key
                       THEN [value |-> computed.value, created |-> now,
                             messages |-> computed.messages]
                       ELSE cache[k]]]

\* The arguments get_stock_data is called with, defaults filled in.
DataKey(ticker, start, end, period, interval) ==
    [ticker |-> ticker, start |-> start, end |-> end, period |-> period,
     interval |-> interval]

InfoKey(ticker) == [ticker |-> ticker]

\* ------------------------------------------------------------------ export

\* df.to_csv(index=True): a header row, then one row per bar.
ToCsv(df) ==
    <<<<"Date", "Open", "High", "Low", "Close", "Volume">>>>
        \o [i \in 1..Len(df.rows) |->
              <<df.rows[i].Date, df.rows[i].Open, df.rows[i].High,
                df.rows[i].Low, df.rows[i].Close, df.rows[i].Volume>>]

\* The download link: the CSV text (base64 is a lossless encoding, kept
\* opaque) and the file name.
get_csv_download_link(df, filename) ==
    [href |-> [base64 |-> ToCsv(df)], download |-> filename]

\* ------------------------------------------------------------------ inputs

\* A bug: the select box offers "custom".
period_options_WithCustom ==
    <<"custom", "5d", "1mo", "3mo", "6mo", "1y", "2y", "5y", "10y", "ytd", "max">>

period_options ==
    <<"1d", "5d", "1mo", "3mo", "6mo", "1y", "2y", "5y", "10y", "ytd", "max">>

interval_options == <<"1d", "5d", "1wk", "1mo", "3mo">>

\* The texts typed into the symbol box in the model.
TypedSymbols == {<<>>, <<"a", "a", "p", "l">>, <<"A", "A", "P", "L">>}

\* The positions of period_options and interval_options picked in the model
\* (the defaults, index 5 and index 0 in Python, among them).
PickedPeriods == {6, 1}
PickedIntervals == {1}

\* The dates picked in the model, in days from the day the page is opened.
PickedDates == {PyDate(-365), PyDate(0)}

\* A snapshot with every attribute the page reads, all of them numbers.
FullInfo ==
    Dict([k \in Range(metric_keys) \cup {"currentPrice", "fiftyTwoWeekLow",
                                         "fiftyTwoWeekHigh"} |->
            CASE k \in {"volume", "averageVolume"} -> PyInt(1234567)
              [] k = "marketCap" -> PyInt(1512345678)
              [] k = "dividendYield" -> PyFloat(52)
              [] k = "trailingAnnualDividendYield" -> PyFloat(125)
              [] k = "earningsQuarterlyGrowth" -> PyFloat(-1250)
              [] OTHER -> PyFloat(1512345)]
         @@ ("shortName" :> PyStr(<<"A", "p", "p", "l", "e">>))
         @@ ("longBusinessSummary" :> PyStr(<<"A", "b", "o", "u", "t">>)))

\* The snapshots Ticker.info answers with in the model, besides raising: no
\* attributes at all, or all of them.
InfoAnswers == {Raised, Dict(<<>>), FullInfo}

\* The attributes and values the snapshots of the first fetch vary in.
VariedKeys ==
    {"currentPrice", "marketCap", "trailingPE", "fiftyTwoWeekHigh", "volume",
     "beta", "dividendYield", "trailingAnnualDividendYield"}

Absent == [t |-> "absent"]

VariedValues ==
    {Absent, None, PyStr(<<"N", "/", "A">>), PyInt(0), PyInt(-1234567),
     PyFloat(1250), PyFloat(-52)}

\* At most MaxVaried attributes of a snapshot differ from FullInfo.
MaxVaried == 2

\* The ways to vary a snapshot: a value, or absence, for a few of the keys.
Variations ==
    UNION {[K -> VariedValues] :
              K \in {S \in SUBSET VariedKeys : Cardinality(S) <= MaxVaried}}

\* The snapshot info varied by f.
VariedInfo(info, f) ==
    Dict([k \in (DOMAIN info.d \cup DOMAIN f) \ {a \in DOMAIN f : f[a] = Absent} |->
            IF k \in DOMAIN f THEN f[k] ELSE info.d[k]])

\* The clock advances in steps of TickSeconds up to MaxTicks steps.
TickSeconds == 1800
MaxTicks == 2
MaxClock == MaxTicks * TickSeconds

\* ------------------------------------------------------------------ page

\* The page of a successful fetch: everything from the header to the
\* company summary.  An uncaught exception ends the page where it is raised.
Render(symbol, df, info) ==
    LET header == <<El("header", [name |-> Get(info, "shortName", PyStr(symbol)),
                                 symbol |-> symbol])>>
        chart == <<El("subheader", "Stock Price History"),
                   El("plotly_chart",
                      [candlestick |-> [i \in 1..Len(df.rows) |->
                                          <<df.rows[i].Date, df.rows[i].Open,
                                            df.rows[i].High, df.rows[i].Low,
                                            df.rows[i].Close>>],
                       volume |-> [i \in 1..Len(df.rows) |->
                                     <<df.rows[i].Date, df.rows[i].Volume>>],
                       title |-> symbol]),
                   El("subheader", "Key Financial Metrics")>>
        tables(km) == <<El("table", MetricsDf(km.rows)),
                        El("subheader", "Historical Data"),
                        El("dataframe", df),
                        El("download_link",
                           get_csv_download_link(df,
                               symbol \o <<"_", "d", "a", "t", "a", ".", "c", "s", "v">>))>>
        about == IF HasKey(info, "longBusinessSummary")
                 THEN <<El("expander", info.d["longBusinessSummary"])>>
                 ELSE <<>>
        body(head, km) ==
            IF head.exc # "none"
            THEN [exc |-> head.exc, out |-> header \o head.out]
            ELSE IF km.exc # "none"
            THEN [exc |-> km.exc, out |-> header \o head.out \o chart]
            ELSE [exc |-> "none",
                  out |-> header \o head.out \o chart \o tables(km) \o about]
    IN  Bind(Headline(info, 1, <<>>),
             LAMBDA head : Bind(BuildKeyMetrics(info, 1, <<>>),
                                LAMBDA km : body(head, km)))

\* Render on the arguments the interaction model reaches, evaluated once.
PageTable ==
    [a \in {Upper(text) : text \in TypedSymbols \ {<<>>}}
             \X (Frames \ {Frame(<<>>)}) \X (InfoAnswers \ {Raised}) |->
        Render(a[1], a[2], a[3])]

Page(symbol, df, info) ==
    IF <<symbol, df, info>> \in DOMAIN PageTable
    THEN PageTable[<<symbol, df, info>>]
    ELSE Render(symbol, df, info)

\* The instructions shown when the name df is not bound.
IdlePage ==
    <<El("info", "instructions"), El("subheader", "Popular Stocks"),
      El("table", "popular_stocks")>>

Footer == <<El("rule", "---"), El("caption", "footer")>>

\* What Streamlit shows for an exception that leaves the script.
Traceback(exc) == <<El("exception", exc)>>

\* A bug: the error does not say which symbol could not be retrieved.
FailedPage_NoSymbol(symbol) ==
    [exc |-> "none", out |-> <<El("error", [msg |-> "Could not retrieve data"])>>]

\* The page when df or info is None: one error, naming the symbol.
FailedPage(symbol) ==
    [exc |-> "none",
     out |-> <<El("error", [msg |-> "Could not retrieve data", symbol |-> symbol])>>]

\* The branch of the fetch button for a non-empty symbol: both fetches, then
\* the error or the page.
FetchBranch(symbol, start_date, end_date, period, interval, now, dataCache, infoCache, dataAnswer, infoAnswer) ==
    LET fetched(d, i) ==
            Bind(IF d.value = None \/ i.value = None
                 THEN FailedPage(symbol)
                 ELSE Page(symbol, d.value, i.value),
                 LAMBDA page :
                     [exc |-> page.exc,
                      out |-> d.messages \o i.messages \o page.out,
                      df |-> d.value, info |-> i.value,
                      dataCache |-> d.cache, infoCache |-> i.cache,
                      calls |-> d.calls \o i.calls,
                      lookups |-> <<d.lookup, i.lookup>>])
    IN  Bind(IF period # PyStr("custom")
             THEN CachedCall(dataCache,
                      DataKey(symbol, None, None, period, interval), now,
                      get_stock_data(symbol, None, None, period, interval, dataAnswer))
             ELSE CachedCall(dataCache,
                      DataKey(symbol, start_date, end_date, None, interval), now,
                      get_stock_data(symbol, start_date, end_date, None, interval,
                                     dataAnswer)),
             LAMBDA d :
                 Bind(CachedCall(infoCache, InfoKey(symbol), now,
                                 get_stock_info(symbol, infoAnswer)),
                      LAMBDA i : fetched(d, i)))

\* A bug: the symbol is never checked.
IsBlank_Never(symbol) == FALSE

\* not symbol: the empty string is the only falsy string.
IsBlank(symbol) == symbol = <<>>

\* One execution of the script, from the title to the footer.
Script(button, symbol, start_date, end_date, period, interval, now, dataCache, infoCache, dataAnswer, infoAnswer) ==
    LET top == <<El("title", "Stock Data Visualization Tool")>>
        skipped(shown) ==
            [exc |-> "none", out |-> shown, df |-> Undefined, info |-> Undefined,
             dataCache |-> dataCache, infoCache |-> infoCache, calls |-> <<>>,
             lookups |-> <<>>]
        rest(main) ==
            IF main.exc # "none" THEN Traceback(main.exc)
            ELSE (IF main.df = Undefined THEN IdlePage ELSE <<>>) \o Footer
    IN  Bind(IF ~button THEN skipped(<<>>)
             ELSE IF IsBlank(symbol)
             THEN skipped(<<El("error", [msg |-> "Please enter a stock symbol"])>>)
             ELSE FetchBranch(symbol, start_date, end_date, period, interval, now,
                              dataCache, infoCache, dataAnswer, infoAnswer),
             LAMBDA main : [main EXCEPT !.out = top \o main.out \o rest(main)])

\* ------------------------------------------------------------------ state

VARIABLES
    symbol,       \* the text of the symbol box, uppercased
    start_date,   \* the start date picker
    end_date,     \* the end date picker
    period,       \* the period select box
    interval,     \* the interval select box
    clock,        \* the time now, in seconds
    dataCache,    \* the cache of get_stock_data
    infoCache,    \* the cache of get_stock_info
    button,       \* whether the last execution was a click of the fetch button
    df,           \* the name df after the last execution
    info,         \* the name info after the last execution
    out,          \* the elements the last execution showed, in order
    exc,          \* the exception that ended the last execution, or "none"
    calls,        \* the provider calls the last execution made, in order
    lookups       \* what the cached calls of the last execution met, in order

vars ==
    <<symbol, start_date, end_date, period, interval, clock, dataCache,
      infoCache, button, df, info, out, exc, calls, lookups>>

inputs == <<symbol, start_date, end_date, period, interval>>

\* One execution of the script with the widgets holding the given values.
Run(b, s, sd, ed, p, iv, dataAnswer, infoAnswer) ==
    \E r \in {Script(b, s, sd, ed, p, iv, clock, dataCache, infoCache,
                     dataAnswer, infoAnswer)} :
        /\ symbol' = s
        /\ start_date' = sd
        /\ end_date' = ed
        /\ period' = p
        /\ interval' = iv
        /\ button' = b
        /\ df' = r.df
        /\ info' = r.info
        /\ out' = r.out
        /\ exc' = r.exc
        /\ calls' = r.calls
        /\ lookups' = r.lookups
        /\ dataCache' = r.dataCache
        /\ infoCache' = r.infoCache
        /\ UNCHANGED clock

\* The page as first opened: the widgets at their defaults, nothing fetched.
Init ==
    /\ symbol = Upper(<<"A", "A", "P", "L">>)
    /\ start_date = PyDate(-365)
    /\ end_date = PyDate(0)
    /\ period = PyStr(period_options[6])
    /\ interval = interval_options[1]
    /\ clock = 0
    /\ dataCache = <<>>
    /\ infoCache = <<>>
    /\ button = FALSE
    /\ df = Undefined
    /\ info = Undefined
    /\ out = Script(FALSE, Upper(<<"A", "A", "P", "L">>), PyDate(-365), PyDate(0),
                    PyStr(period_options[6]), interval_options[1], 0, <<>>, <<>>,
                    Raised, Raised).out
    /\ exc = "none"
    /\ calls = <<>>
    /\ lookups = <<>>

\* The user types a symbol: the script runs again, the button not clicked.
TypeSymbol ==
    \E text \in TypedSymbols :
        Run(FALSE, Upper(text), start_date, end_date, period, interval, Raised, Raised)

PickStartDate ==
    \E d \in PickedDates :
        Run(FALSE, symbol, d, end_date, period, interval, Raised, Raised)

PickEndDate ==
    \E d \in PickedDates :
        Run(FALSE, symbol, start_date, d, period, interval, Raised, Raised)

SelectPeriod ==
    \E i \in PickedPeriods :
        Run(FALSE, symbol, start_date, end_date, PyStr(period_options[i]), interval,
            Raised, Raised)

SelectInterval ==
    \E i \in PickedIntervals :
        Run(FALSE, symbol, start_date, end_date, period, interval_options[i],
            Raised, Raised)

\* The user clicks "Fetch Stock Data"; the provider answers any call made.
ClickFetch ==
    \E dataAnswer \in DownloadAnswers, infoAnswer \in InfoAnswers :
        Run(TRUE, symbol, start_date, end_date, period, interval,
            dataAnswer, infoAnswer)

\* Time passes between two executions.
Tick ==
    /\ clock + TickSeconds <= MaxClock
    /\ clock' = clock + TickSeconds
    /\ UNCHANGED <<inputs, dataCache, infoCache, button, df, info, out, exc,
                   calls, lookups>>

Next ==
    \/ TypeSymbol
    \/ PickStartDate
    \/ PickEndDate
    \/ SelectPeriod
    \/ SelectInterval
    \/ ClickFetch
    \/ Tick

Spec == Init /\ [][Next]_vars

\* The first click after the page is opened, the provider answering with a
\* series that has bars and with any of the varied snapshots.
FirstFetch ==
    /\ ~button
    /\ \E dataAnswer \in Frames \ {Frame(<<>>)}, f \in Variations :
           Run(TRUE, symbol, start_date, end_date, period, interval,
               dataAnswer, VariedInfo(FullInfo, f))

SpecFirstFetch == Init /\ [][FirstFetch]_vars

\* ------------------------------------------------------------------ properties

\* The positions of out holding an element of the kind.
Where(kind) == {i \in DOMAIN out : out[i].kind = kind}

Shown(kind) == Where(kind) # {}

\* The error elements of out with the message.
Errors(msg) == {i \in Where("error") : out[i].arg.msg = msg}

\* The last execution ran the fetch branch.
Fetched == button /\ symbol # <<>>

\* The last execution called yf.download / Ticker.info.
Downloaded == \E i \in DOMAIN calls : calls[i].fn = "yf.download"
AskedInfo == \E i \in DOMAIN calls : calls[i].fn = "yf.Ticker.info"

NothingRendered ==
    /\ ~Shown("header") /\ ~Shown("metric") /\ ~Shown("warning")
    /\ ~Shown("plotly_chart") /\ ~Shown("table") /\ ~Shown("dataframe")
    /\ ~Shown("download_link") /\ ~Shown("expander")

\* C1 as stated: a fetch that ends with the series or the snapshot NotFound
\* shows exactly one error message, which names the symbol, and renders no
\* chart, no table and no CSV link.
C1_ExactlyOneError ==
    (Fetched /\ (df = None \/ info = None)) =>
        /\ Cardinality(Where("error")) = 1
        /\ \A i \in Where("error") :
               "symbol" \in DOMAIN out[i].arg /\ out[i].arg.symbol = symbol
        /\ NothingRendered

\* C1 as amended: a fetch in which get_stock_data or get_stock_info returned
\* None shows exactly one "Could not retrieve data" error, which names the
\* symbol, and renders nothing else; the only other errors are the fetchers'
\* own diagnostics, at most one for each fetcher and only for a fetcher that
\* returned None.
C1_OneNotRetrievedError ==
    (Fetched /\ (df = None \/ info = None)) =>
        /\ Cardinality(Errors("Could not retrieve data")) = 1
        /\ \A i \in Errors("Could not retrieve data") :
               "symbol" \in DOMAIN out[i].arg /\ out[i].arg.symbol = symbol
        /\ \A i \in Where("error") :
               out[i].arg.msg \in {"Could not retrieve data", "Error fetching data",
                                   "Error fetching stock info"}
        /\ Cardinality(Errors("Error fetching data")) <= 1
        /\ Cardinality(Errors("Error fetching stock info")) <= 1
        /\ (Errors("Error fetching data") # {} => df = None)
        /\ (Errors("Error fetching stock info") # {} => info = None)
        /\ NothingRendered
        /\ exc = "none"

\* A failed fetch after a provider exception: the diagnostic and the error.
C1_Witness ==
    /\ Fetched
    /\ df = None
    /\ Errors("Error fetching data") # {}
    /\ Errors("Could not retrieve data") # {}

\* C2: a click with the empty symbol shows the validation error and calls
\* neither fetcher, so the provider is not called.
C2_BlankSymbolNoFetch ==
    (button /\ symbol = <<>>) =>
        /\ Cardinality(Errors("Please enter a stock symbol")) = 1
        /\ calls = <<>>
        /\ lookups = <<>>
        /\ df = Undefined /\ info = Undefined

C2_Witness == button /\ symbol = <<>> /\ Shown("error")

\* One of the headline attributes is absent, None or not a number.
HeadlineKeys ==
    {"currentPrice", "marketCap", "trailingPE", "fiftyTwoWeekLow", "fiftyTwoWeekHigh"}

HeadlineMalformed ==
    \E k \in HeadlineKeys : ~HasKey(info, k) \/ ~IsNumber(info.d[k])

\* C3 as stated: after a successful fetch of a snapshot with a headline
\* attribute absent, None or not a number, the page shows a warning and still
\* the chart, the metrics table, the data table and the CSV link.
C3_HeadlineDegradesToWarning ==
    (Fetched /\ df # None /\ info # None /\ HeadlineMalformed) =>
        /\ exc = "none"
        /\ Shown("warning")
        /\ Shown("plotly_chart") /\ Shown("table") /\ Shown("dataframe")
        /\ Shown("download_link")

\* What a lookup of the last execution met, and whether its function ran.
LookupRan(i) == IF i = 1 THEN Downloaded ELSE AskedInfo
LookupValue(i) == IF i = 1 THEN df ELSE info
LookupCache(i) == IF i = 1 THEN dataCache ELSE infoCache

\* C4: a request that meets an entry of its own key younger than one hour is
\* answered with the entry's value and no provider call, the entry staying
\* as it was; one that meets an entry one hour old or older makes a provider
\* call.
C4_CacheWindow ==
    \A i \in DOMAIN lookups :
        /\ (lookups[i].found /\ lookups[i].age < ttl) =>
               /\ ~LookupRan(i)
               /\ LookupValue(i) = LookupCache(i)[lookups[i].key].value
               /\ LookupCache(i)[lookups[i].key].created + lookups[i].age <= clock
        /\ (lookups[i].found /\ lookups[i].age >= ttl) => LookupRan(i)

\* The series answered from an entry half an hour old while the snapshot,
\* an hour old, is fetched again.
C4_Witness ==
    /\ Fetched
    /\ Len(lookups) = 2
    /\ lookups[1].found /\ lookups[1].age > 0 /\ lookups[1].age < ttl
    /\ ~Downloaded
    /\ lookups[2].found /\ lookups[2].age >= ttl
    /\ AskedInfo

\* C5 as stated: get_stock_info returns None for a snapshot without
\* attributes, as get_stock_data does for a frame without rows, so the name
\* info never holds the empty snapshot.
C5_EmptySnapshotIsNotFound ==
    Fetched => /\ info # Dict(<<>>)
               /\ (df # None => df.rows # <<>>)

Presets == {PyStr(period_options[i]) : i \in DOMAIN period_options}

\* C6: the request of a fetch has either a preset period or a start and an
\* end date, never both and never neither, and yf.download is called with
\* the preset and the interval in the first case, with the dates and the
\* interval in the second.
C6_OneRangePerRequest ==
    Fetched =>
        LET k == lookups[1].key
            preset == k.period \in Presets
            explicit == k.start # None /\ k.end # None
        IN  /\ preset # explicit
            /\ preset => k.start = None /\ k.end = None
            /\ \A i \in DOMAIN calls :
                   calls[i].fn = "yf.download" =>
                       /\ calls[i].ticker = k.ticker
                       /\ calls[i].interval = k.interval
                       /\ calls[i].period = (IF preset THEN k.period ELSE None)
                       /\ calls[i].start = (IF preset THEN None ELSE k.start)
                       /\ calls[i].end = (IF preset THEN None ELSE k.end)

C6_Witness ==
    /\ Fetched
    /\ Downloaded
    /\ lookups[1].key.period = PyStr("1d")

\* A string of the form d...d.dd% with an optional sign.
IsDigit(c) == \E i \in DOMAIN DigitChars : DigitChars[i] = c

IsPercent2(s) ==
    LET n == Len(s)
        first == IF n > 0 /\ s[1] = "-" THEN 2 ELSE 1
    IN  /\ n - first >= 4
        /\ s[n] = "%"
        /\ IsDigit(s[n - 1]) /\ IsDigit(s[n - 2])
        /\ s[n - 3] = "."
        /\ \A i \in first..(n - 4) : IsDigit(s[i])

\* The rows of the metrics table of a fetch that shows it.
MetricsRows == out[CHOOSE i \in Where("table") : TRUE].arg

ContainsYield(key) == Contains(Lower(KeyChars(key)), <<"y", "i", "e", "l", "d">>)

\* C7: in the metrics table, a metric whose key contains "yield" and whose
\* value is a number is shown as a percentage with exactly two fraction
\* digits and a trailing "%"; one whose value is None is left as None, never
\* formatted into a text ending in "%".
C7_YieldPercent ==
    (Fetched /\ Shown("table")) =>
        \A j \in DOMAIN metric_keys :
            LET key == metric_keys[j]
            IN  (ContainsYield(key) /\ HasKey(info, key)) =>
                    \E r \in DOMAIN MetricsRows :
                        /\ MetricsRows[r].Metric = name_mapping[key]
                        /\ IsNumber(info.d[key]) =>
                               /\ MetricsRows[r].Value.t = "str"
                               /\ IsPercent2(MetricsRows[r].Value.v)
                        /\ info.d[key] = None => MetricsRows[r].Value = None

\* A table with one yield shown as a percentage and the other left as None.
C7_Witness ==
    /\ Fetched /\ Shown("table")
    /\ \E r \in DOMAIN MetricsRows :
           /\ MetricsRows[r].Metric = "Dividend Yield"
           /\ MetricsRows[r].Value = None
    /\ \E r \in DOMAIN MetricsRows :
           /\ MetricsRows[r].Metric = "Trailing Annual Dividend Yield"
           /\ MetricsRows[r].Value = PyStr(<<"1", ".", "2", "5", "%">>)

\* The allow-listed keys the snapshot holds, in allow-list order.
RECURSIVE PresentKeys(_, _)
PresentKeys(snapshot, j) ==
    IF j > Len(metric_keys) THEN <<>>
    ELSE (IF HasKey(snapshot, metric_keys[j]) THEN <<metric_keys[j]>> ELSE <<>>)
             \o PresentKeys(snapshot, j + 1)

\* C8 as stated: for a snapshot whose allow-listed attributes are absent,
\* None, numbers or strings, the metrics formatter does not end the page and
\* the table has one row for each allow-listed key present, in allow-list
\* order and under its label, a value that is not a number unchanged.
C8_FormatterCompletes ==
    (Fetched /\ df # None /\ info # None /\ Shown("plotly_chart")) =>
        /\ exc = "none"
        /\ Shown("table")
        /\ LET keys == PresentKeys(info, 1)
           IN  /\ Len(MetricsRows) = Len(keys)
               /\ \A r \in DOMAIN keys :
                      /\ MetricsRows[r].Metric = name_mapping[keys[r]]
                      /\ ~IsNumber(info.d[keys[r]]) =>
                             MetricsRows[r].Value = info.d[keys[r]]

\* C9: the period is always one of the eleven presets and never "custom";
\* every series request and every cache key has the preset and the interval
\* and no dates, whatever the start and the end date are.
C9_DatesNeverUsed ==
    /\ period \in Presets
    /\ period # PyStr("custom")
    /\ \A k \in DOMAIN dataCache :
           k.start = None /\ k.end = None /\ k.period \in Presets
    /\ Fetched =>
           /\ lookups[1].key = DataKey(symbol, None, None, period, interval)
           /\ \A i \in DOMAIN calls :
                  calls[i].fn = "yf.download" =>
                      /\ calls[i].period = period
                      /\ calls[i].start = None
                      /\ calls[i].end = None

\* A fetch from the provider with both dates changed from their defaults.
C9_Witness ==
    /\ Fetched
    /\ Downloaded
    /\ start_date = PyDate(0)
    /\ end_date = PyDate(-365)

\* C10: a request that meets an entry of its own key younger than one hour
\* holding None gets None without a provider call, and the page is the
\* failed one.
C10_NotFoundMemoized ==
    \A i \in DOMAIN lookups :
        (/\ lookups[i].found
         /\ lookups[i].age < ttl
         /\ LookupCache(i)[lookups[i].key].value = None) =>
            /\ ~LookupRan(i)
            /\ LookupValue(i) = None
            /\ Cardinality(Errors("Could not retrieve data")) = 1
            /\ NothingRendered

\* A provider exception answered again from the cache half an hour later.
C10_Witness ==
    /\ Fetched
    /\ lookups[1].found /\ lookups[1].age > 0 /\ lookups[1].age < ttl
    /\ dataCache[lookups[1].key].value = None
    /\ dataCache[lookups[1].key].messages # <<>>
    /\ ~Downloaded
    /\ df = None

====
